---- MODULE Spec2Model ----
(***************************************************************************)
(* The DEER fixed-point iteration of deer/deer_iter.py: the while loop of  *)
(* deer_iteration_helper (cond_func / iter_func), the value it returns and *)
(* the tangent rule deer_iteration_jvp.                                    *)
(*                                                                         *)
(* Numbers.  An entry of a sequence is an IEEE value: NaN, +inf, -inf or a *)
(* finite number.  A finite number is kept exactly as hi * 1e8 + lo * 1e-7 *)
(* with integers hi and lo (|lo| stays far below 1e15), so that the clip   *)
(* bound 1e8, the initial error 1e10 and the tolerances 1e-7 and 1e-4 are  *)
(* all exact and keep their true ratios.  Rounding is not modelled.  The   *)
(* state dimension ny is 1, so a Jacobian block is one coefficient per     *)
(* sample.  A coefficient is a number with hi = 0.                         *)
(***************************************************************************)
EXTENDS Integers, Sequences, FiniteSets, TLC

\* ------------------------------------------------------------------ bounds
NSamples == 2
MaxIter == 3

Samples == 1..NSamples

\* ------------------------------------------------------- IEEE-like numbers
Fin(h, l) == [k |-> "fin", hi |-> h, lo |-> l]
NaN == [k |-> "nan", hi |-> 0, lo |-> 0]
Inf(s) == [k |-> "inf", hi |-> s, lo |-> 0]
Zero == Fin(0, 0)
Coef(n) == Fin(0, n)

IsNaN(v) == v.k = "nan"
IsFinite(v) == v.k = "fin"

SignInt(n) == IF n > 0 THEN 1 ELSE IF n < 0 THEN -1 ELSE 0

\* sign of a non-NaN number as an integer
SignOf(v) == IF v.k = "inf" THEN v.hi
             ELSE IF v.hi # 0 THEN SignInt(v.hi) ELSE SignInt(v.lo)

Neg(v) == IF v.k = "nan" THEN NaN
          ELSE IF v.k = "inf" THEN Inf(-v.hi)
          ELSE Fin(-v.hi, -v.lo)

Add(a, b) == IF a.k = "nan" \/ b.k = "nan" THEN NaN
             ELSE IF a.k = "inf" /\ b.k = "inf"
                  THEN (IF a.hi = b.hi THEN a ELSE NaN)
             ELSE IF a.k = "inf" THEN a
             ELSE IF b.k = "inf" THEN b
             ELSE Fin(a.hi + b.hi, a.lo + b.lo)

Sub(a, b) == Add(a, Neg(b))

\* product of a coefficient c (hi = 0 when finite) and a number v
Mul(c, v) == IF c.k = "nan" \/ v.k = "nan" THEN NaN
             ELSE IF c.k = "inf" \/ v.k = "inf"
                  THEN (IF SignOf(c) = 0 \/ SignOf(v) = 0 THEN NaN
                        ELSE Inf(SignOf(c) * SignOf(v)))
             ELSE Fin(c.lo * v.hi, c.lo * v.lo)

Abs(v) == IF v.k = "nan" THEN NaN
          ELSE IF SignOf(v) < 0 THEN Neg(v) ELSE v

\* jnp.sign, the derivative of jnp.abs: sign(0) = 0, sign(NaN) = NaN
Sign(v) == IF v.k = "nan" THEN NaN ELSE Coef(SignOf(v))

\* a < b for numbers that are not NaN
Less(a, b) == IF a.k = "inf" THEN a.hi = -1 /\ ~(b.k = "inf" /\ b.hi = -1)
              ELSE IF b.k = "inf" THEN b.hi = 1
              ELSE a.hi < b.hi \/ (a.hi = b.hi /\ a.lo < b.lo)

\* the IEEE comparisons: false as soon as one side is NaN
Gt(a, b) == ~IsNaN(a) /\ ~IsNaN(b) /\ Less(b, a)
Le(a, b) == ~IsNaN(a) /\ ~IsNaN(b) /\ ~Less(b, a)

\* jnp.max over the entries of an array: NaN if any entry is NaN
MaxOf(arr) == IF \E i \in DOMAIN arr : IsNaN(arr[i]) THEN NaN
              ELSE CHOOSE m \in {arr[i] : i \in DOMAIN arr} :
                     \A j \in DOMAIN arr : ~Less(m, arr[j])

\* ------------------------------------------- the caller-supplied functions
\* shifter_func(y, shifter_func_params): the list of shifted sequences.
\*   "prev"  : [y(r-1)]          with y(0), y(-1), ... = shifter_func_params
\*   "prev2" : [y(r-1), y(r-2)]
\*   "self"  : [y(r)]
ShifterKinds == {"prev", "prev2", "self"}

NShifts(kind) == IF kind = "prev2" THEN 2 ELSE 1

Shifted(y, sp, i, back) == IF i - back < 1 THEN sp ELSE y[i - back]

ShifterApply(kind, y, sp) ==
  IF kind = "self" THEN << y >>
  ELSE IF kind = "prev" THEN << [i \in Samples |-> Shifted(y, sp, i, 1)] >>
  ELSE << [i \in Samples |-> Shifted(y, sp, i, 1)],
          [i \in Samples |-> Shifted(y, sp, i, 2)] >>

\* func(ys, x, params) for one sample; ys has one number per shift.
\*   "affine" : params * ys[1] (+ ys[2]) + x
\*   "abs"    : params * |ys[1]| (+ ys[2]) + x
FuncKinds == {"affine", "abs"}

FuncTail(ys, x) == IF Len(ys) = 2 THEN Add(ys[2], x) ELSE x

FuncValue(kind, ys, x, th) ==
  IF kind = "affine" THEN Add(Mul(Coef(th), ys[1]), FuncTail(ys, x))
  ELSE Add(Mul(Coef(th), Abs(ys[1])), FuncTail(ys, x))

\* jax.jacfwd(func, argnums=0): one derivative per shift argument
FuncJacobian(kind, ys, x, th) ==
  LET d1 == IF kind = "affine" THEN Coef(th) ELSE Mul(Coef(th), Sign(ys[1]))
  IN  IF Len(ys) = 2 THEN << d1, Coef(1) >> ELSE << d1 >>

\* a tangent of func that forgets the input signal
FuncTangentNoInput(kind, ys, dx, dth) ==
  IF kind = "affine" THEN Mul(Coef(dth), ys[1])
  ELSE Mul(Coef(dth), Abs(ys[1]))

\* the tangent of func in (x, params) with ys held fixed
FuncTangent(kind, ys, dx, dth) ==
  IF kind = "affine" THEN Add(Mul(Coef(dth), ys[1]), dx)
  ELSE Add(Mul(Coef(dth), Abs(ys[1])), dx)

\* inv_lin(gts, rhs, inv_lin_params): solves
\*   y(r) + sum_k gts[k](r) * y(r-k) = rhs(r),  y(0), y(-1), ... = inv_lin_params
\* sample after sample; il.blocks is the number of blocks it unpacks and
\* il.blowup the non-finite or huge value its first entry blows up to.
Blowups == {"none", "nan", "pinf", "ninf", "big"}

BlowupValue(b) == IF b = "nan" THEN NaN
                  ELSE IF b = "pinf" THEN Inf(1)
                  ELSE IF b = "ninf" THEN Inf(-1)
                  ELSE Fin(2, 0)

RECURSIVE SumBlocks(_, _, _, _, _)
SumBlocks(gts, sol, ip, i, k) ==
  IF k = 0 THEN Zero
  ELSE Add(SumBlocks(gts, sol, ip, i, k - 1),
           Mul(gts[k][i], IF i - k < 1 THEN ip ELSE sol[i - k]))

SeqSolve(gts, rhs, ip) ==
  LET s[n \in 0..NSamples] ==
        IF n = 0 THEN << >>
        ELSE Append(s[n - 1],
                    Sub(rhs[n], SumBlocks(gts, s[n - 1], ip, n, Len(gts))))
  IN  [i \in Samples |-> s[NSamples][i]]

InvLinApply(il, gts, rhs, ip) ==
  LET sol == SeqSolve(gts, rhs, ip)
  IN  IF il.blowup = "none" THEN sol
      ELSE [i \in Samples |-> IF i = 1 THEN BlowupValue(il.blowup) ELSE sol[i]]

\* the tangent of inv_lin in (rhs, inv_lin_params) with gts held fixed
InvLinTangent(il, gts, drhs, dip) ==
  LET sol == SeqSolve(gts, drhs, dip)
  IN  IF il.blowup = "none" THEN sol
      ELSE [i \in Samples |-> IF i = 1 THEN Zero ELSE sol[i]]

\* ------------------------------------------------------------------- state
VARIABLES
  inv_lin, func, shifter_func, p_num, params, xinput, inv_lin_params,
  shifter_func_params, yinit_guess, max_iter, clip_ytnext, dtype,
  err, yt, gts, iiter,
  pc, raised, calls, err_in, yt_in, inv_out, all_above, run, first_err,
  tangent, grad_yt, jvp_gts

inputs == << inv_lin, func, shifter_func, p_num, params, xinput,
             inv_lin_params, shifter_func_params, max_iter, clip_ytnext,
             dtype >>
carry == << err, yt, gts, iiter >>
ghosts == << err_in, yt_in, inv_out, all_above >>
jvpout == << tangent, grad_yt, jvp_gts >>
vars == << inputs, yinit_guess, carry, pc, raised, calls, ghosts, run,
           first_err, jvpout >>

\* --------------------------------------------------- deer_iteration_helper
\* tol = 1e-7 if dtype == jnp.float64 else 1e-4
tol == IF dtype = "float64" THEN Fin(0, 1) ELSE Fin(0, 1000)

\* an initial error that is not above the tolerance
ErrInitZero == Zero

\* err = jnp.array(1e10, dtype=dtype)
ErrInit == Fin(100, 0)

\* gts = [gt] * p_num, gt all zeros
GtsInit(p) == [k \in 1..p |-> [i \in Samples |-> Zero]]

\* jacfunc and func2: func and its Jacobian mapped over the samples
SampleShifts(ytparams, i) == [k \in 1..Len(ytparams) |-> ytparams[k][i]]

func2(ytparams) ==
  [i \in Samples |->
     FuncValue(func, SampleShifts(ytparams, i), xinput[i], params)]

jacfunc(ytparams) ==
  [k \in 1..Len(ytparams) |->
     [i \in Samples |->
        FuncJacobian(func, SampleShifts(ytparams, i), xinput[i], params)[k]]]

\* gts = [-gt for gt in jacfunc(ytparams, xinput, params)]
NegJacobian(ytparams) ==
  LET j == jacfunc(ytparams)
  IN  [k \in 1..Len(j) |-> [i \in Samples |-> Neg(j[k][i])]]

RECURSIVE SumTaylor(_, _, _, _)
SumTaylor(g, ytparams, i, k) ==
  IF k = 0 THEN Zero
  ELSE Add(SumTaylor(g, ytparams, i, k - 1), Mul(g[k][i], ytparams[k][i]))

\* a right-hand side without the first-order correction term
RhsNoTaylor(g, ytparams) == func2(ytparams)

\* rhs = func2(...) + sum(gt @ ytp for gt, ytp in zip(gts, ytparams))
Rhs(g, ytparams) ==
  LET f == func2(ytparams)
  IN  [i \in Samples |-> Add(f[i], SumTaylor(g, ytparams, i, Len(g)))]

\* a clip that leaves NaN in place
ClipEntryKeepNaN(v) ==
  IF IsNaN(v) THEN v
  ELSE IF Less(Fin(1, 0), v) THEN Fin(1, 0)
  ELSE IF Less(v, Fin(-1, 0)) THEN Fin(-1, 0)
  ELSE v

\* a clip that sends every non-finite entry to zero
ClipEntryZeroNonFinite(v) ==
  IF ~IsFinite(v) THEN Zero
  ELSE IF Less(Fin(1, 0), v) THEN Fin(1, 0)
  ELSE IF Less(v, Fin(-1, 0)) THEN Fin(-1, 0)
  ELSE v

\* jnp.clip(v, -1e8, 1e8) followed by jnp.where(jnp.isnan(v), 0.0, v)
ClipEntry(v) ==
  LET c == IF IsNaN(v) THEN v
           ELSE IF Less(Fin(1, 0), v) THEN Fin(1, 0)
           ELSE IF Less(v, Fin(-1, 0)) THEN Fin(-1, 0)
           ELSE v
  IN  IF IsNaN(c) THEN Zero ELSE c

ClipYtNext(y) ==
  IF clip_ytnext THEN [i \in Samples |-> ClipEntry(y[i])] ELSE y

\* err = jnp.max(jnp.abs(yt_next - yt))
MaxAbsDiff(a, b) == MaxOf([i \in Samples |-> Abs(Sub(a[i], b[i]))])

\* what one call of iter_func computes from the estimate y
IterBundle(y) == NegJacobian(ShifterApply(shifter_func, y, shifter_func_params))

IterRaw(y) ==
  LET ytparams == ShifterApply(shifter_func, y, shifter_func_params)
      g == NegJacobian(ytparams)
  IN  InvLinApply(inv_lin, g, Rhs(g, ytparams), inv_lin_params)

IterNext(y) == ClipYtNext(IterRaw(y))

\* iter_func handing back the bundle it was given
ReturnedBundleStale(gt_, g) == gt_

\* the list iter_func returns as third element of the carry
ReturnedBundle(gt_, g) == g

\* a loop condition that admits one iteration too many
cond_func_inclusive(e, it) == Gt(e, tol) /\ it <= max_iter

\* cond_func: jnp.logical_and(err > tol, iiter < max_iter)
cond_func(e, it) == Gt(e, tol) /\ it < max_iter

\* the lengths the three parties use agree
ShapesAgree == /\ p_num = NShifts(shifter_func)
               /\ inv_lin.blocks = NShifts(shifter_func)

\* ------------------------------------------------------------------ inputs
Arr(a, b) == [i \in Samples |-> IF i = 1 THEN a ELSE b]

Guesses == { Arr(Zero, Zero), Arr(Fin(0, -1), Fin(0, -1)),
             Arr(Fin(0, 1), Zero), Arr(NaN, Zero), Arr(Zero, Inf(1)) }
XInputs == { Arr(Fin(0, v), Fin(0, v)) : v \in {0, 1} }
Boundaries == { Fin(0, 0), Fin(0, 2) }
Thetas == {-1, 2}
Dtypes == {"float64", "float32"}
MaxIters == (-1)..MaxIter
InvLins == [blocks : {1, 2}, blowup : Blowups]

\* the state a call of deer_iteration_helper starts its loop from; err_in,
\* yt_in and inv_out record the carry the last executed iteration started
\* from and what inv_lin returned in it, all_above that every error computed
\* so far exceeded the tolerance
Fresh(guess) ==
  /\ err = ErrInit
  /\ yt = guess
  /\ gts = GtsInit(p_num)
  /\ iiter = 0
  /\ pc = "start"
  /\ raised = "none"
  /\ calls = {}
  /\ err_in = ErrInit
  /\ yt_in = guess
  /\ inv_out = guess
  /\ all_above = TRUE

NoJvp ==
  /\ tangent = "none"
  /\ grad_yt = Arr(Zero, Zero)
  /\ jvp_gts = GtsInit(p_num)

\* every input of the matched family, where the three lengths agree
InitMatched ==
  /\ shifter_func \in ShifterKinds
  /\ p_num = NShifts(shifter_func)
  /\ inv_lin \in {il \in InvLins : il.blocks = p_num}
  /\ func \in FuncKinds
  /\ params \in Thetas
  /\ xinput \in XInputs
  /\ inv_lin_params \in Boundaries
  /\ shifter_func_params = inv_lin_params
  /\ yinit_guess \in Guesses
  /\ max_iter \in MaxIters
  /\ clip_ytnext \in BOOLEAN
  /\ dtype \in Dtypes

\* every combination of the three lengths, on one plain set of numbers
InitShapes ==
  /\ shifter_func \in ShifterKinds
  /\ p_num \in {1, 2}
  /\ inv_lin \in {il \in InvLins : il.blowup = "none"}
  /\ ~ShapesAgree
  /\ func \in FuncKinds
  /\ params = 2
  /\ xinput = Arr(Fin(0, 1), Fin(0, 1))
  /\ inv_lin_params = Zero
  /\ shifter_func_params = Zero
  /\ yinit_guess = Arr(Zero, Zero)
  /\ max_iter \in MaxIters
  /\ clip_ytnext \in BOOLEAN
  /\ dtype \in Dtypes

Init ==
  /\ InitMatched \/ InitShapes
  /\ Fresh(yinit_guess)
  /\ run = 1
  /\ first_err = ErrInit
  /\ NoJvp

\* ----------------------------------------------------------------- actions
Collaborators == {"shifter_func", "func", "jacfunc", "inv_lin"}

\* jax.lax.while_loop first traces cond_func and iter_func on the initial
\* carry: every caller-supplied function is called once, and the carry
\* iter_func returns must have the structure of the carry it was given.
WhileLoopEnter ==
  /\ pc = "start"
  /\ ShapesAgree
  /\ pc' = "while"
  /\ calls' = Collaborators
  /\ UNCHANGED << inputs, yinit_guess, carry, raised, ghosts, run, first_err,
                  jvpout >>

\* a wrong number of blocks fails inside inv_lin when it unpacks them; a
\* wrong p_num fails the carry check after iter_func has been traced
WhileLoopRaise ==
  /\ pc = "start"
  /\ ~ShapesAgree
  /\ pc' = "raised"
  /\ calls' = Collaborators
  /\ raised' = IF inv_lin.blocks # NShifts(shifter_func)
               THEN "ValueError in inv_lin"
               ELSE "TypeError in while_loop"
  /\ UNCHANGED << inputs, yinit_guess, carry, ghosts, run, first_err,
                  jvpout >>

\* one execution of iter_func
IterFunc ==
  /\ pc = "while"
  /\ cond_func(err, iiter)
  /\ yt' = IterNext(yt)
  /\ gts' = ReturnedBundle(gts, IterBundle(yt))
  /\ err' = MaxAbsDiff(yt', yt)
  /\ iiter' = iiter + 1
  /\ err_in' = err
  /\ yt_in' = yt
  /\ inv_out' = IterRaw(yt)
  /\ all_above' = (all_above /\ Gt(err', tol))
  /\ UNCHANGED << inputs, yinit_guess, pc, raised, calls, run, first_err,
                  jvpout >>

\* the loop exits and deer_iteration_helper returns (yt, gts, func)
Return ==
  /\ pc = "while"
  /\ ~cond_func(err, iiter)
  /\ pc' = "returned"
  /\ UNCHANGED << inputs, yinit_guess, carry, raised, calls, ghosts, run,
                  first_err, jvpout >>

\* deer_iteration_jvp after its call of deer_iteration_helper, for a unit
\* tangent in one of the five differentiable inputs
Directions == {"params", "xinput", "inv_lin_params", "shifter_func_params",
               "yinit_guess"}

Unit(dir, name) == IF dir = name THEN 1 ELSE 0

\* a tangent rule that linearizes again at the returned sequence
JvpBundleAtOutput(g, y) == IterBundle(y)

\* the bundle fixed inside inv_lin: inv_lin2 = partial(inv_lin, gts)
JvpBundle(g, y) == g

JvpTangent(dir) ==
  LET ytparams == ShifterApply(shifter_func, yt, shifter_func_params)
      dx == Fin(0, Unit(dir, "xinput"))
      grad_func == [i \in Samples |->
                      FuncTangent(func, SampleShifts(ytparams, i), dx,
                                  Unit(dir, "params"))]
  IN  InvLinTangent(inv_lin, JvpBundle(gts, yt), grad_func,
                    Fin(0, Unit(dir, "inv_lin_params")))

Jvp ==
  /\ pc = "returned"
  /\ run = 1
  /\ \E dir \in Directions :
       /\ tangent' = dir
       /\ grad_yt' = JvpTangent(dir)
  /\ jvp_gts' = JvpBundle(gts, yt)
  /\ pc' = "jvp"
  /\ UNCHANGED << inputs, yinit_guess, carry, raised, calls, ghosts, run,
                  first_err >>

\* a second call of deer_iteration_helper with the same inputs and the
\* returned sequence as yinit_guess
Rerun ==
  /\ pc = "returned"
  /\ run = 1
  /\ run' = 2
  /\ first_err' = err
  /\ yinit_guess' = yt
  /\ err' = ErrInit
  /\ yt' = yt
  /\ gts' = GtsInit(p_num)
  /\ iiter' = 0
  /\ pc' = "start"
  /\ raised' = "none"
  /\ calls' = {}
  /\ err_in' = ErrInit
  /\ yt_in' = yt
  /\ inv_out' = yt
  /\ all_above' = TRUE
  /\ UNCHANGED << inputs, jvpout >>

\* deer_iteration: one call of deer_iteration_helper
Next == WhileLoopEnter \/ WhileLoopRaise \/ IterFunc \/ Return

Spec == Init /\ [][Next]_vars

\* deer_iteration_jvp, for an inv_lin that does not blow up
InitJvp == Init /\ inv_lin.blowup = "none"

NextJvp == Next \/ Jvp

SpecJvp == InitJvp /\ [][NextJvp]_vars

\* two calls in a row, the second from the sequence the first returned
NextRerun == Next \/ Rerun

SpecRerun == Init /\ [][NextRerun]_vars

\* ------------------------------------------------------------------ claims
Executed == iiter >= 1 /\ pc \in {"while", "returned", "jvp"}

\* C1: the loop body runs only from a carry with err > tol and
\* iiter < max_iter, and the loop exits with iiter < max_iter only if the
\* last computed error is <= tol (1e-7 for float64, 1e-4 for float32),
\* non-finite estimates included.
C1_ExitOnlyBelowTolerance ==
  /\ tol = (IF dtype = "float64" THEN Fin(0, 1) ELSE Fin(0, 1000))
  /\ Executed => Gt(err_in, tol) /\ iiter - 1 < max_iter
  /\ (pc = "returned" /\ max_iter >= 1 /\ iiter < max_iter) => Le(err, tol)

\* C2: when every computed error exceeds the tolerance and max_iter >= 0,
\* the loop runs exactly max_iter times and returns the last computed
\* estimate as a normal result.
C2_BudgetExact ==
  (ShapesAgree /\ max_iter >= 0 /\ all_above) =>
     /\ iiter <= max_iter
     /\ raised = "none"
     /\ pc \in {"returned", "jvp"} =>
          /\ iiter = max_iter
          /\ yt = (IF iiter = 0 THEN yinit_guess ELSE IterNext(yt_in))

C2_Witness ==
  /\ pc = "returned"
  /\ all_above
  /\ max_iter = MaxIter
  /\ iiter = MaxIter
  /\ Gt(err, tol)

\* ---- reference solutions the claims compare the loop with
FiniteGuess == \A i \in Samples : IsFinite(yinit_guess[i])

\* an affine func with the inv_lin that solves its linear system exactly
LinearExact ==
  /\ ShapesAgree
  /\ func = "affine"
  /\ shifter_func \in {"prev", "prev2"}
  /\ inv_lin.blowup = "none"
  /\ inv_lin_params = shifter_func_params

\* the recurrence y(r) = func(y(r-1), [y(r-2)], x(r), params) evaluated
\* sample after sample from the boundary value b
RefSolution(b) ==
  LET s[n \in 0..NSamples] ==
        IF n = 0 THEN << >>
        ELSE Append(s[n - 1],
               FuncValue(func,
                 [k \in 1..NShifts(shifter_func) |->
                    IF n - k < 1 THEN b ELSE s[n - 1][n - k]],
                 xinput[n], params))
  IN  [i \in Samples |-> s[NSamples][i]]

\* the derivative of RefSolution, for affine func, along a unit change of
\* params, of xinput or of the boundary value (when dir = boundary)
RefTangent(b, dir, boundary) ==
  LET sol == RefSolution(b)
      db == Fin(0, Unit(dir, boundary))
      two == NShifts(shifter_func) = 2
      d[n \in 0..NSamples] ==
        IF n = 0 THEN << >>
        ELSE LET y1 == IF n - 1 < 1 THEN b ELSE sol[n - 1]
                 d1 == IF n - 1 < 1 THEN db ELSE d[n - 1][n - 1]
                 d2 == IF ~two THEN Zero
                       ELSE IF n - 2 < 1 THEN db ELSE d[n - 1][n - 2]
             IN  Append(d[n - 1],
                   Add(Add(Mul(Coef(Unit(dir, "params")), y1),
                           Mul(Coef(params), d1)),
                       Add(d2, Fin(0, Unit(dir, "xinput")))))
  IN  [i \in Samples |-> d[NSamples][i]]

\* C3 as stated: with an affine func and an exact inv_lin the loop exits
\* with iiter = 1 (its one iteration computing a zero error), whatever the
\* guess; stated where the budget allows a second iteration.
C3_OneIteration ==
  (LinearExact /\ FiniteGuess /\ max_iter >= 2 /\ pc = "returned") =>
     iiter = 1

\* C3 amended: the first iteration already produces the exact solution,
\* whatever the finite guess; the loop exits after one iteration only if
\* the guess was within tol of the solution or max_iter = 1, and otherwise
\* after two, the second iteration computing a zero error.
C3_ExactAfterOne ==
  (LinearExact /\ FiniteGuess /\ Executed) =>
     /\ yt = RefSolution(shifter_func_params)
     /\ pc = "returned" =>
          /\ iiter <= 2
          /\ iiter = 2 => err = Zero
          /\ iiter = 1 => (max_iter = 1 \/
                           Le(MaxAbsDiff(yt, yinit_guess), tol))

C3_Witness ==
  /\ LinearExact /\ FiniteGuess /\ pc = "returned"
  /\ iiter = 2 /\ err = Zero
  /\ yt # yinit_guess

\* C4 as stated: after a run that exited with err <= tol, a second run
\* started from the returned sequence has err <= tol in its first
\* iteration and stops with iiter = 1.
C4_RerunStops ==
  (run = 2 /\ Le(first_err, tol) /\ pc = "returned"
     /\ inv_lin.blowup = "none") =>
     iiter = 1 /\ Le(err, tol)

\* C4 amended: after a run that exited with err = 0, the second run
\* reproduces the sequence in its first iteration with err = 0 and stops
\* with iiter = 1.
C4_RerunAtExactFixedPoint ==
  (run = 2 /\ first_err = Zero /\ pc = "returned") =>
     iiter = 1 /\ err = Zero /\ yt = yinit_guess

C4_Witness ==
  /\ run = 2 /\ first_err = Zero /\ pc = "returned"
  /\ iiter = 1 /\ err = Zero
  /\ func = "abs"

\* C5: with clip_ytnext every entry of the carried estimate is in
\* [-1e8, 1e8] and not NaN, a NaN of inv_lin being replaced by 0; without
\* it the carried estimate is exactly what inv_lin returned.
C5_ClipGuard ==
  Executed =>
     IF clip_ytnext
     THEN \A i \in Samples :
            /\ IsFinite(yt[i])
            /\ ~Less(yt[i], Fin(-1, 0))
            /\ ~Less(Fin(1, 0), yt[i])
            /\ IsNaN(inv_out[i]) => yt[i] = Zero
     ELSE yt = inv_out

C5_Witness ==
  /\ pc = "returned" /\ iiter >= 1 /\ clip_ytnext
  /\ IsNaN(inv_out[1]) /\ yt[1] = Zero

\* C6 as stated: with clip_ytnext every non-finite entry inv_lin returns
\* (NaN, +inf, -inf) is carried forward as zero.
C6_NonFiniteToZero ==
  (Executed /\ clip_ytnext) =>
     \A i \in Samples : ~IsFinite(inv_out[i]) => yt[i] = Zero

\* C6 amended: with clip_ytnext a NaN entry is carried forward as zero,
\* a +inf entry as 1e8 and a -inf entry as -1e8.
C6_NonFiniteClipped ==
  (Executed /\ clip_ytnext) =>
     \A i \in Samples :
       /\ IsNaN(inv_out[i]) => yt[i] = Zero
       /\ inv_out[i] = Inf(1) => yt[i] = Fin(1, 0)
       /\ inv_out[i] = Inf(-1) => yt[i] = Fin(-1, 0)

C6_Witness ==
  /\ Executed /\ clip_ytnext
  /\ inv_out[1] = Inf(-1) /\ yt[1] = Fin(-1, 0)

\* C7: when p_num, the number of shifted sequences and the number of
\* blocks inv_lin expects disagree, the call ends in a configuration error
\* before func, its Jacobian or inv_lin is called.
C7_MismatchRejectedFirst ==
  (~ShapesAgree /\ pc # "start") =>
     /\ pc = "raised"
     /\ raised = "ConfigurationError"
     /\ calls = {}

\* C8 as stated, for the input it singles out: for a linear system whose
\* shift set, and hence solution, depends on shifter_func_params, the
\* returned tangent for a unit change of shifter_func_params alone is the
\* derivative of the closed-form solution.
C8_TangentOfShiftedSolution ==
  (pc = "jvp" /\ LinearExact /\ FiniteGuess /\ max_iter >= 1
     /\ tangent = "shifter_func_params") =>
     grad_yt = RefTangent(shifter_func_params, tangent,
                          "shifter_func_params")

\* C8 amended: for a linear system given the same boundary value as
\* inv_lin_params and shifter_func_params, the returned tangent is the
\* derivative of the solution for a unit change of params, of xinput and of
\* inv_lin_params, and it is zero for shifter_func_params and yinit_guess.
C8_TangentOfLoopOutput ==
  (pc = "jvp" /\ LinearExact /\ FiniteGuess /\ max_iter >= 1) =>
     /\ grad_yt = RefTangent(inv_lin_params, tangent, "inv_lin_params")
     /\ tangent \in {"shifter_func_params", "yinit_guess"} =>
          grad_yt = Arr(Zero, Zero)

C8_Witness ==
  /\ pc = "jvp" /\ LinearExact /\ FiniteGuess /\ max_iter >= 1
  /\ tangent = "params"
  /\ grad_yt # Arr(Zero, Zero)

\* C9 as stated: the bundle the tangent rule fixes inside inv_lin is the
\* negated Jacobian of func at shifter_func(y*), y* the returned sequence.
C9_BundleAtOutput ==
  (pc = "jvp" /\ iiter >= 1 /\ inv_lin.blowup = "none" /\ FiniteGuess) =>
     jvp_gts = IterBundle(yt)

\* C9 amended: that bundle is the negated Jacobian at the shift set of the
\* estimate that entered the last executed iteration; it is the one at y*
\* when func is affine or the last iteration left the estimate unchanged.
C9_BundleAtLastInput ==
  (pc = "jvp" /\ iiter >= 1) =>
     /\ jvp_gts = IterBundle(yt_in)
     /\ (func = "affine" \/ err = Zero) => jvp_gts = IterBundle(yt)

C9_Witness ==
  /\ pc = "jvp" /\ iiter >= 1 /\ inv_lin.blowup = "none" /\ FiniteGuess
  /\ jvp_gts = IterBundle(yt_in)
  /\ IterBundle(yt_in) # IterBundle(yt)

\* C10: after k >= 1 iterations the helper returns the bundle computed in
\* iteration k at the shift set of the estimate that entered it, and the
\* (optionally clipped) inv_lin result computed from that bundle.
C10_ReturnsLastPair ==
  (pc = "returned" /\ iiter >= 1) =>
     LET ytparams == ShifterApply(shifter_func, yt_in, shifter_func_params)
     IN  /\ gts = NegJacobian(ytparams)
         /\ yt = ClipYtNext(InvLinApply(inv_lin, gts, Rhs(gts, ytparams),
                                        inv_lin_params))

C10_Witness ==
  /\ pc = "returned" /\ iiter >= 2
  /\ gts = IterBundle(yt_in)
  /\ gts # IterBundle(yinit_guess)

\* C11: the carry starts with err = 1e10 and iiter = 0, so with
\* max_iter >= 1 at least one iteration runs before the loop exits, even
\* from a guess that is already a fixed point; with max_iter <= 0 none
\* runs, the returned sequence is yinit_guess and the returned bundle is
\* p_num all-zero blocks.
C11_FirstIterationAlways ==
  /\ (pc = "returned" /\ max_iter >= 1) => iiter >= 1
  /\ (pc \in {"while", "returned"} /\ max_iter <= 0) =>
       /\ iiter = 0
       /\ yt = yinit_guess
       /\ Len(gts) = p_num
       /\ \A k \in 1..p_num : \A i \in Samples : gts[k][i] = Zero

C11_Witness ==
  /\ pc = "returned" /\ max_iter >= 1
  /\ FiniteGuess
  /\ iiter = 1 /\ err = Zero
  /\ yt = yinit_guess

C11_WitnessNoIteration ==
  /\ pc = "returned" /\ max_iter <= 0
  /\ iiter = 0 /\ yt = yinit_guess

====
